---- MODULE Spec2Model ----
(***************************************************************************)
(* Model of elefont's FontCache (src/lib.rs): a shelf-packing glyph atlas  *)
(* cache layered over a FontProvider and a Texture.                        *)
(***************************************************************************)
EXTENDS Integers, Sequences, FiniteSets, TLC

VARIABLES
    cache,           \* struct Cache: font, texture, map, h_cursor, v_cursor, current_line_height
    glyph_buffer,    \* FontCache::glyph_buffer
    pc,              \* "idle", "iter" (a render_string iterator is alive),
                     \* "collect" (cache_string is draining it), "aborted" (a panic unwound)
    held,            \* the textures the caller owns (not inside the cache)
    last,            \* the most recent call: operation, argument, result, collaborator calls made
    rasterize_calls, \* per glyph: FontProvider::rasterize calls since the last reset
    put_rect_calls,  \* per glyph: Texture::put_rect calls since the last reset
    history,         \* the calls made since construction (recorded by the replay specification only)
    string_call      \* the render_string call in progress or just finished (forgotten at the
                     \* next clear): who consumes its iterator, the glyphs the provider
                     \* produced for its text, the items the iterator yielded so far, and how
                     \* many glyphs the string call before it left unyielded (recorded by the
                     \* string specification only)

vars == <<cache, glyph_buffer, pc, held, last, rasterize_calls, put_rect_calls, history,
          string_call>>

----------------------------------------------------------------------------
(* Bounds of the model *)

MaxText == 2            \* longest text handed to render_string / cache_string
MaxRasterizeCalls == 2  \* rasterize(g) may fail only while fewer calls than this were made
MaxHistory == 5         \* longest recorded call history in the replay specification

----------------------------------------------------------------------------
(* Values *)

None == [is_some |-> FALSE]
Some(v) == [is_some |-> TRUE, value |-> v]

\* struct Glyph(pub u32)
Glyphs == 0 .. 5

\* struct Bounds
Bounds(x, y, width, height) == [x |-> x, y |-> y, width |-> width, height |-> height]

\* struct Metrics (only bounds is read by the cache)
Metrics(bounds) == [bounds |-> bounds]

\* struct TextureGlyph
TextureGlyph(glyph, bounds) == [glyph |-> glyph, bounds |-> bounds]

\* The font provider under test: a metrics table.
\* Glyphs 0, 1, 2 are 3x2; glyph 3 is 4x1 (a row of the 8x4 texture can hold it next
\* to a taller 3x2 glyph); glyph 4 is 2x5; glyph 5 has no bounds.
FontProvider ==
    [g \in Glyphs |->
        CASE g \in {0, 1, 2} -> Metrics(Some(Bounds(0, 0, 3, 2)))
          [] g = 3           -> Metrics(Some(Bounds(0, 0, 4, 1)))
          [] g = 4           -> Metrics(Some(Bounds(0, 0, 2, 5)))
          [] OTHER           -> Metrics(None)]

\* The textures of the test: the 8x4 one the cache is constructed with, and a
\* narrower 3x5 one the caller can swap in.
FirstTexture == [id |-> 1, width |-> 8, height |-> 4]
OtherTexture == [id |-> 2, width |-> 3, height |-> 5]
Textures == {FirstTexture, OtherTexture}

\* enum CacheError
TextureTooSmall == [variant |-> "TextureTooSmall"]
OutOfSpace == [variant |-> "OutOfSpace"]
NonRenderableGlyph(glyph) == [variant |-> "NonRenderableGlyph", glyph |-> glyph]

\* Result values
Ok(v) == [kind |-> "Ok", value |-> v]
Err(e) == [kind |-> "Err", error |-> e]
Panic == [kind |-> "Panic"]
Unit == [kind |-> "Unit"]

\* What FontProvider::rasterize may return for a glyph: pixel data, or an error of the provider
RasterizeOutcomes(glyph) == { Ok("data"), Err(NonRenderableGlyph(glyph)) }

Max(a, b) == IF a >= b THEN a ELSE b

----------------------------------------------------------------------------
(* struct Cache and its methods, as functions of the cache value *)

\* FontCache::new: the cache part
NewCache(font, texture) ==
    [font |-> font, texture |-> texture, map |-> <<>>,
     h_cursor |-> 0, v_cursor |-> 0, current_line_height |-> 0]

\* a clear that keeps the row height
Clear_KeepLineHeight(c) ==
    [c EXCEPT !.map = <<>>, !.h_cursor = 0, !.v_cursor = 0]

\* a clear that keeps the vertical cursor
Clear_KeepVCursor(c) ==
    [c EXCEPT !.map = <<>>, !.h_cursor = 0, !.current_line_height = 0]

\* a clear that keeps the lookup map
Clear_KeepMap(c) ==
    [c EXCEPT !.h_cursor = 0, !.v_cursor = 0, !.current_line_height = 0]

\* Cache::clear
Clear(c) ==
    [c EXCEPT !.map = <<>>, !.h_cursor = 0, !.v_cursor = 0, !.current_line_height = 0]

\* a lookup that never hits
IsCached_Never(c, glyph) == FALSE

\* Cache::render_glyph, the hit test
IsCached(c, glyph) == glyph \in DOMAIN c.map

\* a size check that forgets the height
TooLarge_WidthOnly(c, bounds) == bounds.width > c.texture.width

\* Cache::render_glyph, the size check
TooLarge(c, bounds) ==
    bounds.width > c.texture.width \/ bounds.height > c.texture.height

\* a new row that starts where the full one did
StartRow_SameRow(c, bounds) ==
    IF bounds.width + c.h_cursor > c.texture.width
    THEN [c EXCEPT !.h_cursor = 0, !.current_line_height = 0]
    ELSE c

\* a new row that keeps the height of the row before
StartRow_KeepHeight(c, bounds) ==
    IF bounds.width + c.h_cursor > c.texture.width
    THEN [c EXCEPT !.h_cursor = 0,
                   !.v_cursor = c.v_cursor + c.current_line_height + 1]
    ELSE c

\* a new row without the padding row
StartRow_NoPadding(c, bounds) ==
    IF bounds.width + c.h_cursor > c.texture.width
    THEN [c EXCEPT !.h_cursor = 0,
                   !.v_cursor = c.v_cursor + c.current_line_height,
                   !.current_line_height = 0]
    ELSE c

\* a new row whose v_cursor is assigned instead of advanced
StartRow_Assign(c, bounds) ==
    IF bounds.width + c.h_cursor > c.texture.width
    THEN [c EXCEPT !.h_cursor = 0,
                   !.v_cursor = c.current_line_height + 1,
                   !.current_line_height = 0]
    ELSE c

\* Cache::render_glyph, the horizontal fit check and the start of a new row
StartRow(c, bounds) ==
    IF bounds.width + c.h_cursor > c.texture.width
    THEN [c EXCEPT !.h_cursor = 0,
                   !.v_cursor = c.v_cursor + c.current_line_height + 1,
                   !.current_line_height = 0]
    ELSE c

\* Cache::render_glyph, the vertical fit check
NoRoom(c, bounds) == bounds.height + c.v_cursor > c.texture.height

\* i32::MAX
I32Max == 2147483647

\* the cast `u32 as i32`: values above i32::MAX wrap to the negative numbers
AsI32(n) == IF n <= I32Max THEN n ELSE ((n - I32Max) - I32Max) - 2

\* Cache::render_glyph, the region the glyph gets
Place(c, glyph, bounds) ==
    TextureGlyph(glyph, Bounds(AsI32(c.h_cursor), AsI32(c.v_cursor),
                               bounds.width, bounds.height))

\* a commit without the padding column
Commit_NoPadding(c, gpu) ==
    [c EXCEPT !.h_cursor = c.h_cursor + gpu.bounds.width,
              !.current_line_height = Max(c.current_line_height, gpu.bounds.height),
              !.map = [g \in DOMAIN c.map \cup {gpu.glyph} |->
                          IF g = gpu.glyph THEN gpu ELSE c.map[g]]]

\* a commit that takes the height of the latest glyph for the height of the row
Commit_LastHeight(c, gpu) ==
    [c EXCEPT !.h_cursor = c.h_cursor + gpu.bounds.width + 1,
              !.current_line_height = gpu.bounds.height,
              !.map = [g \in DOMAIN c.map \cup {gpu.glyph} |->
                          IF g = gpu.glyph THEN gpu ELSE c.map[g]]]

\* a commit that forgets the entries made before
Commit_Evict(c, gpu) ==
    [c EXCEPT !.h_cursor = c.h_cursor + gpu.bounds.width + 1,
              !.current_line_height = Max(c.current_line_height, gpu.bounds.height),
              !.map = [g \in {gpu.glyph} |-> gpu]]

\* Cache::render_glyph, the commit after put_rect
Commit(c, gpu) ==
    [c EXCEPT !.h_cursor = c.h_cursor + gpu.bounds.width + 1,
              !.current_line_height = Max(c.current_line_height, gpu.bounds.height),
              !.map = [g \in DOMAIN c.map \cup {gpu.glyph} |->
                          IF g = gpu.glyph THEN gpu ELSE c.map[g]]]

\* The outcome of one call: the cache afterwards, the value returned, and the
\* rasterize and put_rect calls made on the collaborators
Outcome(c, result, rasterized, written) ==
    [cache |-> c, result |-> result, rasterize |-> rasterized, put_rect |-> written]

\* a render_glyph that starts the new row before it checks the size
RenderGlyph_RowFirst(c, glyph, raster) ==
    IF IsCached(c, glyph)
    THEN Outcome(c, Ok(<<c.font[glyph], c.map[glyph]>>), <<>>, <<>>)
    ELSE LET metrics == c.font[glyph] IN
         IF ~metrics.bounds.is_some
         THEN Outcome(c, Panic, <<>>, <<>>)
         ELSE LET bounds == metrics.bounds.value
                  c1 == StartRow(c, bounds) IN
              IF TooLarge(c1, bounds)
              THEN Outcome(c1, Err(TextureTooSmall), <<>>, <<>>)
              ELSE IF NoRoom(c1, bounds)
                   THEN Outcome(c1, Err(OutOfSpace), <<>>, <<>>)
                   ELSE IF raster.kind = "Err"
                        THEN Outcome(c1, raster, <<glyph>>, <<>>)
                        ELSE LET gpu == Place(c1, glyph, bounds) IN
                             Outcome(Commit(c1, gpu), Ok(<<c1.font[glyph], gpu>>),
                                     <<glyph>>, <<gpu>>)

\* Cache::render_glyph; raster is what the provider's rasterize returns if it is called
RenderGlyph(c, glyph, raster) ==
    IF IsCached(c, glyph)
    THEN Outcome(c, Ok(<<c.font[glyph], c.map[glyph]>>), <<>>, <<>>)
    ELSE LET metrics == c.font[glyph] IN
         IF ~metrics.bounds.is_some
         THEN Outcome(c, Panic, <<>>, <<>>)
         ELSE LET bounds == metrics.bounds.value IN
              IF TooLarge(c, bounds)
              THEN Outcome(c, Err(TextureTooSmall), <<>>, <<>>)
              ELSE LET c1 == StartRow(c, bounds) IN
                   IF NoRoom(c1, bounds)
                   THEN Outcome(c1, Err(OutOfSpace), <<>>, <<>>)
                   ELSE IF raster.kind = "Err"
                        THEN Outcome(c1, raster, <<glyph>>, <<>>)
                        ELSE LET gpu == Place(c1, glyph, bounds) IN
                             Outcome(Commit(c1, gpu), Ok(<<c1.font[glyph], gpu>>),
                                     <<glyph>>, <<gpu>>)

----------------------------------------------------------------------------
(* Call records and the call counters *)

NoGlyph == None

Call(op, arg, out) ==
    [op |-> op, arg |-> arg, result |-> out.result,
     rasterize |-> out.rasterize, put_rect |-> out.put_rect]

ZeroCalls == [g \in Glyphs |-> 0]

\* counters after a call made its collaborator calls
Count(calls, glyphs) ==
    [g \in Glyphs |-> calls[g] + Cardinality({i \in 1 .. Len(glyphs) : glyphs[i] = g})]

WrittenGlyphs(written) == [i \in 1 .. Len(written) |-> written[i].glyph]

\* rasterize outcomes offered to a call: failures stay within the failure budget
Offered(glyph) ==
    { r \in RasterizeOutcomes(glyph) :
        r.kind = "Err" => rasterize_calls[glyph] + 1 < MaxRasterizeCalls }

----------------------------------------------------------------------------
(* Texts: a character is a whitespace or the character of a glyph *)

\* char::is_whitespace: character 32 is the space, every other character is a glyph's
IsWhitespace(c) == c = 32
Chars == {32, 1, 2, 3, 5}

RECURSIVE SeqsUpTo(_, _)
SeqsUpTo(S, n) ==
    IF n = 0 THEN {<<>>}
    ELSE LET shorter == SeqsUpTo(S, n - 1) IN
         shorter \cup { Append(s, x) : s \in {t \in shorter : Len(t) = n - 1}, x \in S }

Texts == SeqsUpTo(Chars, MaxText)

\* String::retain(|c| !c.is_whitespace())
RECURSIVE Retain(_)
Retain(string) ==
    IF string = <<>> THEN <<>>
    ELSE IF IsWhitespace(Head(string)) THEN Retain(Tail(string))
         ELSE <<Head(string)>> \o Retain(Tail(string))

\* FontProvider::glyphs of the provider under test: one glyph per character, pushed onto the buffer
FontGlyphs(string, buffer) == buffer \o string

----------------------------------------------------------------------------
(* The state after FontCache::new *)

InitCommon ==
    /\ cache = NewCache(FontProvider, FirstTexture)
    /\ held = Textures \ {FirstTexture}
    /\ glyph_buffer = <<>>
    /\ pc = "idle"
    /\ last = Call("new", NoGlyph, Outcome(cache, Unit, <<>>, <<>>))
    /\ rasterize_calls = ZeroCalls
    /\ put_rect_calls = ZeroCalls

\* no render_string call to remember
NoStringCall == [mode |-> "none", glyphs |-> <<>>, items |-> <<>>, prev_unyielded |-> 0]

Init == InitCommon /\ history = <<>> /\ string_call = NoStringCall

----------------------------------------------------------------------------
(* FontCache's methods *)

\* the effect of one Cache::render_glyph call on the state
Apply(glyph, out) ==
    /\ cache' = out.cache
    /\ last' = Call("render_glyph", Some(glyph), out)
    /\ rasterize_calls' = Count(rasterize_calls, out.rasterize)
    /\ put_rect_calls' = Count(put_rect_calls, WrittenGlyphs(out.put_rect))

\* FontCache::render_glyph
DoRenderGlyph(glyph, raster) ==
    /\ pc = "idle"
    /\ LET out == RenderGlyph(cache, glyph, raster) IN
         /\ Apply(glyph, out)
         /\ pc' = IF out.result = Panic THEN "aborted" ELSE "idle"
    /\ UNCHANGED <<glyph_buffer, held>>

\* FontCache::clear: delegates to Cache::clear and calls neither collaborator
FontCacheClear(c) == Outcome(Clear(c), Unit, <<>>, <<>>)

DoClear ==
    /\ pc = "idle"
    /\ LET out == FontCacheClear(cache) IN
         /\ cache' = out.cache
         /\ last' = Call("clear", NoGlyph, out)
    /\ rasterize_calls' = ZeroCalls
    /\ put_rect_calls' = ZeroCalls
    /\ UNCHANGED <<glyph_buffer, pc, held>>

\* a swap that forgets to clear
ReplaceTexture_NoClear(c, texture) == [c EXCEPT !.texture = texture]

\* FontCache::replace_texture: clear, then swap
ReplaceTexture(c, texture) == [Clear(c) EXCEPT !.texture = texture]

\* a replace_texture that hands back the texture it was given
FontCacheReplaceTexture_ReturnNew(c, texture) ==
    Outcome(ReplaceTexture(c, texture), Ok(texture), <<>>, <<>>)

\* FontCache::replace_texture with the texture it returns; neither collaborator is called
FontCacheReplaceTexture(c, texture) ==
    Outcome(ReplaceTexture(c, texture), Ok(c.texture), <<>>, <<>>)

DoReplaceTexture(texture) ==
    /\ pc = "idle"
    /\ texture \in held
    /\ LET out == FontCacheReplaceTexture(cache, texture) IN
         /\ cache' = out.cache
         /\ held' = (held \ {texture}) \cup {out.result.value}
         /\ last' = Call("replace_texture", Some(texture), out)
    /\ rasterize_calls' = ZeroCalls
    /\ put_rect_calls' = ZeroCalls
    /\ UNCHANGED <<glyph_buffer, pc>>

\* FontCache::render_string up to the return of the iterator; mode is "iter" for a
\* caller that holds the iterator and "collect" for cache_string
StartString(string, mode) ==
    /\ pc = "idle"
    /\ glyph_buffer' = FontGlyphs(Retain(string), glyph_buffer)
    /\ pc' = mode
    /\ last' = Call("render_string", Some(string), Outcome(cache, Unit, <<>>, <<>>))
    /\ UNCHANGED <<cache, held, rasterize_calls, put_rect_calls>>

\* a drop that leaves the glyphs not yet yielded in the buffer
DrainDrop_Keep(buffer) == buffer

\* the drop of the vec::Drain behind the iterator: the glyphs not yet yielded are removed
DrainDrop(buffer) == <<>>

\* one next() of the iterator: drain one glyph and resolve it
NextGlyph(raster) ==
    /\ glyph_buffer # <<>>
    /\ LET glyph == Head(glyph_buffer)
           out == RenderGlyph(cache, glyph, raster) IN
         /\ Apply(glyph, out)
         /\ IF out.result = Panic
            THEN pc' = "aborted" /\ glyph_buffer' = DrainDrop(Tail(glyph_buffer))
            ELSE pc' = pc /\ glyph_buffer' = Tail(glyph_buffer)
    /\ UNCHANGED held

\* a collect that takes errors for items to skip
Failed_Never == FALSE

\* the last item the iterator produced in this call was an error
Failed == last.op = "render_glyph" /\ last.result.kind = "Err"

\* the caller drops the iterator (exhausted or not): Drain's drop empties the buffer
DoIterDrop ==
    /\ pc = "iter"
    /\ glyph_buffer' = DrainDrop(glyph_buffer)
    /\ pc' = "idle"
    /\ last' = Call("drop", NoGlyph, Outcome(cache, Unit, <<>>, <<>>))
    /\ UNCHANGED <<cache, held, rasterize_calls, put_rect_calls>>

\* the caller pulls the next item from the iterator
DoIterNext ==
    /\ pc = "iter"
    /\ glyph_buffer # <<>>
    /\ \E raster \in Offered(Head(glyph_buffer)) : NextGlyph(raster)

\* FontCache::cache_string: collect() pulls items until the first error
DoCollectNext ==
    /\ pc = "collect"
    /\ ~Failed
    /\ glyph_buffer # <<>>
    /\ \E raster \in Offered(Head(glyph_buffer)) : NextGlyph(raster)

DoCollectReturn ==
    /\ pc = "collect"
    /\ Failed \/ glyph_buffer = <<>>
    /\ glyph_buffer' = DrainDrop(glyph_buffer)
    /\ pc' = "idle"
    /\ last' = Call("cache_string", NoGlyph,
                    Outcome(cache, IF Failed THEN last.result ELSE Ok(Unit), <<>>, <<>>))
    /\ UNCHANGED <<cache, held, rasterize_calls, put_rect_calls>>

\* the specification of all methods records neither the history nor the string calls
Untracked == UNCHANGED <<history, string_call>>

RenderString == \E string \in Texts : StartString(string, "iter") /\ Untracked

IterNext == DoIterNext /\ Untracked

IterDrop == DoIterDrop /\ Untracked

CacheString == \E string \in Texts : StartString(string, "collect") /\ Untracked

CollectNext == DoCollectNext /\ Untracked

CollectReturn == DoCollectReturn /\ Untracked

RenderGlyphCall ==
    \E glyph \in Glyphs : \E raster \in Offered(glyph) :
        DoRenderGlyph(glyph, raster) /\ Untracked

ClearCall == DoClear /\ Untracked

ReplaceTextureCall == \E texture \in held : DoReplaceTexture(texture) /\ Untracked

Next ==
    \/ RenderGlyphCall
    \/ ClearCall
    \/ ReplaceTextureCall
    \/ RenderString
    \/ IterNext
    \/ IterDrop
    \/ CacheString
    \/ CollectNext
    \/ CollectReturn

Spec == Init /\ [][Next]_vars

----------------------------------------------------------------------------
(* The replay specification: direct calls only, with the calls recorded *)

Record == history' = Append(history, last') /\ UNCHANGED string_call

ReplayRenderGlyph ==
    /\ Len(history) < MaxHistory
    /\ \E glyph \in Glyphs : \E raster \in Offered(glyph) : DoRenderGlyph(glyph, raster)
    /\ Record

ReplayClear ==
    /\ Len(history) < MaxHistory
    /\ DoClear
    /\ Record

ReplayReplaceTexture ==
    /\ Len(history) < MaxHistory
    /\ \E texture \in held : DoReplaceTexture(texture)
    /\ Record

ReplayNext == ReplayRenderGlyph \/ ReplayClear \/ ReplayReplaceTexture

SpecReplay == Init /\ [][ReplayNext]_vars

----------------------------------------------------------------------------
(* The string specification: the string methods and clear, with the string      *)
(* calls recorded                                                               *)

\* a string call begins: remember the glyphs the provider produced for its text
\* and, until its first item, how many glyphs the call before it left unyielded
Begin(string, mode) ==
    /\ string_call' = [mode |-> mode,
                       glyphs |-> FontGlyphs(Retain(string), <<>>),
                       items |-> <<>>,
                       prev_unyielded |-> Len(string_call.glyphs) - Len(string_call.items)]
    /\ UNCHANGED history

\* the iterator yielded an item
Yield ==
    /\ string_call' = [string_call EXCEPT !.items = Append(@, last'), !.prev_unyielded = 0]
    /\ UNCHANGED history

\* a string call ended: it is remembered until the next clear
Keep ==
    /\ string_call' = [string_call EXCEPT !.prev_unyielded = 0]
    /\ UNCHANGED history

\* a clear: the string call before it is forgotten
Forget == string_call' = NoStringCall /\ UNCHANGED history

StringRenderString ==
    \E string \in Texts : StartString(string, "iter") /\ Begin(string, "iter")

StringIterNext == DoIterNext /\ Yield

StringIterDrop == DoIterDrop /\ Keep

StringCacheString ==
    \E string \in Texts : StartString(string, "collect") /\ Begin(string, "collect")

StringCollectNext == DoCollectNext /\ Yield

StringCollectReturn == DoCollectReturn /\ Keep

StringClear == DoClear /\ Forget

StringNext ==
    \/ StringRenderString
    \/ StringIterNext
    \/ StringIterDrop
    \/ StringCacheString
    \/ StringCollectNext
    \/ StringCollectReturn
    \/ StringClear

SpecString == Init /\ [][StringNext]_vars

----------------------------------------------------------------------------
(* Properties *)

Entries == { cache.map[g] : g \in DOMAIN cache.map }

IsErr(r, variant) == r.kind = "Err" /\ r.error.variant = variant

IsRenderGlyph(call) == call.op = "render_glyph"

Cursors(c) == <<c.h_cursor, c.v_cursor, c.current_line_height>>

\* two regions share a pixel
Overlap(a, b) ==
    /\ a.x < b.x + b.width /\ b.x < a.x + a.width
    /\ a.y < b.y + b.height /\ b.y < a.y + a.height

\* C1: no two distinct entries of the lookup map have overlapping rectangles,
\* whatever calls (failing ones included) led to the state.
C1_NonOverlap ==
    \A a \in Entries : \A b \in Entries :
        a.glyph # b.glyph => ~Overlap(a.bounds, b.bounds)

\* three entries in two rows, right after a request that ran out of space
C1_Witness ==
    /\ Cardinality(DOMAIN cache.map) >= 3
    /\ \E a \in Entries : \E b \in Entries : a.bounds.y # b.bounds.y
    /\ IsRenderGlyph(last) /\ IsErr(last.result, "OutOfSpace")

\* C2: every entry of the lookup map lies inside the texture the cache owns now,
\* also after replace_texture installed a texture of other dimensions.
C2_Containment ==
    \A e \in Entries :
        /\ 0 <= e.bounds.x
        /\ 0 <= e.bounds.y
        /\ e.bounds.x + e.bounds.width <= cache.texture.width
        /\ e.bounds.y + e.bounds.height <= cache.texture.height

\* the narrower texture was swapped in and holds two glyphs, one at its bottom edge
C2_Witness ==
    /\ cache.texture = OtherTexture
    /\ Cardinality(DOMAIN cache.map) >= 2
    /\ \E e \in Entries : e.bounds.y + e.bounds.height = cache.texture.height

\* C3: a render_glyph call that returns OutOfSpace leaves the lookup map, h_cursor,
\* v_cursor and current_line_height as they were before the call.
C3_NoMutationOnOutOfSpace ==
    [][ (IsRenderGlyph(last') /\ IsErr(last'.result, "OutOfSpace"))
            => (cache'.map = cache.map /\ Cursors(cache') = Cursors(cache)) ]_vars

ResetOps == {"clear", "replace_texture"}

\* C4: while a glyph stays cached, every request for it returns the stored region and
\* changes neither the cursors, the row height nor the map; the one request that
\* cached it made exactly one rasterize and one put_rect call for it, and no call
\* other than a reset makes another one for it.
C4_IdempotentHit ==
    [][ last'.op \notin ResetOps =>
          /\ \A g \in DOMAIN cache.map :
                /\ g \in DOMAIN cache'.map
                /\ cache'.map[g] = cache.map[g]
                /\ put_rect_calls[g] = 1
                /\ put_rect_calls'[g] = 1
                /\ rasterize_calls'[g] = rasterize_calls[g]
                /\ (IsRenderGlyph(last') /\ last'.arg.value = g) =>
                      /\ last'.result = Ok(<<cache.font[g], cache.map[g]>>)
                      /\ last'.rasterize = <<>>
                      /\ last'.put_rect = <<>>
                      /\ cache' = cache
          /\ \A g \in DOMAIN cache'.map \ DOMAIN cache.map :
                /\ rasterize_calls'[g] = rasterize_calls[g] + 1
                /\ put_rect_calls'[g] = put_rect_calls[g] + 1
                /\ last'.rasterize = <<g>>
                /\ last'.put_rect = <<cache'.map[g]>> ]_vars

\* a hit on a glyph of the first row after other glyphs were placed and a later
\* request ran the cursors into a new row
C4_Witness ==
    /\ IsRenderGlyph(last)
    /\ last.result.kind = "Ok"
    /\ last.rasterize = <<>>
    /\ last.arg.value \in DOMAIN cache.map
    /\ cache.map[last.arg.value].bounds.y < cache.v_cursor
    /\ Cardinality(DOMAIN cache.map) >= 2
    /\ rasterize_calls[last.arg.value] = 1
    /\ put_rect_calls[last.arg.value] = 1

\* C5: a request for a glyph wider or taller than the texture returns TextureTooSmall
\* in every state, and TextureTooSmall is returned only for a glyph that an empty
\* cache on the same texture cannot place either.
C5_PermanentOversize ==
    IsRenderGlyph(last) =>
        LET glyph == last.arg.value
            metrics == FontProvider[glyph] IN
        metrics.bounds.is_some =>
            /\ (\/ metrics.bounds.value.width > cache.texture.width
                \/ metrics.bounds.value.height > cache.texture.height)
                   => IsErr(last.result, "TextureTooSmall")
            /\ IsErr(last.result, "TextureTooSmall")
                   => RenderGlyph(NewCache(FontProvider, cache.texture), glyph,
                                  Ok("data")).result.kind # "Ok"

\* TextureTooSmall from a cache that holds glyphs and whose earlier request failed
\* after starting a row below the texture's last
C5_Witness ==
    /\ IsRenderGlyph(last)
    /\ IsErr(last.result, "TextureTooSmall")
    /\ Cardinality(DOMAIN cache.map) >= 2
    /\ cache.v_cursor + 1 > cache.texture.height

\* C6: a request for an uncached glyph without bounds returns the error
\* NonRenderableGlyph for that glyph and does not abort.
C6_NonRenderableGlyph ==
    (IsRenderGlyph(last) /\ ~FontProvider[last.arg.value].bounds.is_some) =>
        /\ pc # "aborted"
        /\ IsErr(last.result, "NonRenderableGlyph")
        /\ last.result.error.glyph = last.arg.value

\* the index of the last reset in a call history, 0 if there was none
LastReset(calls) ==
    LET resets == { i \in 1 .. Len(calls) : calls[i].op \in ResetOps } IN
    IF resets = {} THEN 0 ELSE CHOOSE i \in resets : \A j \in resets : j <= i

\* what the provider's rasterize returned in a recorded call (pixel data if it was not asked)
RasterOf(call) ==
    IF call.rasterize # <<>> /\ call.result.kind = "Err" THEN call.result ELSE Ok("data")

\* the provider's rasterize succeeded if it was called
RasterizeSucceeded(call) == RasterOf(call).kind = "Ok"

\* the recorded requests made again, one after the other, from cache value c
RECURSIVE Replay(_, _, _)
Replay(c, calls, results) ==
    IF calls = <<>> THEN [cache |-> c, results |-> results]
    ELSE LET out == RenderGlyph(c, Head(calls).arg.value, RasterOf(Head(calls))) IN
         Replay(out.cache, Tail(calls), Append(results, out.result))

\* C7: the requests made since the last clear (or since construction) give, when made
\* again on a freshly constructed cache over the same texture, the same results and
\* the same map and cursors: nothing from before the clear influences the layout.
C7_DeterminismAfterReset ==
    LET requests == SubSeq(history, LastReset(history) + 1, Len(history))
        run == Replay(NewCache(FontProvider, cache.texture), requests, <<>>) IN
    /\ run.cache = cache
    /\ run.results = [k \in 1 .. Len(requests) |-> requests[k].result]

\* two glyphs placed, a clear, then two glyphs placed again
C7_Witness ==
    /\ Len(history) = 5
    /\ history[1].result.kind = "Ok"
    /\ history[2].result.kind = "Ok"
    /\ history[3].op = "clear"
    /\ history[4].result.kind = "Ok"
    /\ history[5].result.kind = "Ok"
    /\ Cardinality(DOMAIN cache.map) = 2

Requested(call, glyph) == IsRenderGlyph(call) /\ call.arg.value = glyph

PlacedAt(call, glyph, x, y, width, height) ==
    /\ Requested(call, glyph)
    /\ call.result = Ok(<<FontProvider[glyph], TextureGlyph(glyph, Bounds(x, y, width, height))>>)

\* C8: on the empty cache over the 8x4 texture, three distinct 3x2 glyphs a, b, c
\* requested in that order get region (0,0,3,2), region (4,0,3,2) and OutOfSpace;
\* a and b then are still in the map with those regions, and requesting them again
\* returns the regions without a rasterize or put_rect call.
C8_ConcreteScenario ==
    \A a \in {0, 1, 2} : \A b \in {0, 1, 2} \ {a} : \A c \in {0, 1, 2} \ {a, b} :
        LET n == Len(history)
            first == n >= 1 /\ Requested(history[1], a) /\ RasterizeSucceeded(history[1])
            second == first /\ n >= 2 /\ Requested(history[2], b)
                            /\ RasterizeSucceeded(history[2])
            third == second /\ n >= 3 /\ Requested(history[3], c)
            again(i) == /\ third /\ n >= i
                        /\ (\A k \in 4 .. i : IsRenderGlyph(history[k]))
                        /\ history[i].arg.value \in {a, b}
        IN
        /\ first => PlacedAt(history[1], a, 0, 0, 3, 2)
        /\ second => PlacedAt(history[2], b, 4, 0, 3, 2)
        /\ third => IsErr(history[3].result, "OutOfSpace")
        /\ (third /\ n = 3) =>
              /\ DOMAIN cache.map = {a, b}
              /\ cache.map[a] = TextureGlyph(a, Bounds(0, 0, 3, 2))
              /\ cache.map[b] = TextureGlyph(b, Bounds(4, 0, 3, 2))
        /\ \A i \in 4 .. n : again(i) =>
              /\ history[i].result.kind = "Ok"
              /\ history[i].result.value[2].bounds =
                    (IF history[i].arg.value = a THEN Bounds(0, 0, 3, 2)
                                                 ELSE Bounds(4, 0, 3, 2))
              /\ history[i].rasterize = <<>>
              /\ history[i].put_rect = <<>>

\* the scenario ran, and both cached glyphs were requested again afterwards
C8_Witness ==
    /\ Len(history) = 5
    /\ PlacedAt(history[1], 0, 0, 0, 3, 2)
    /\ PlacedAt(history[2], 1, 4, 0, 3, 2)
    /\ Requested(history[3], 2)
    /\ IsErr(history[3].result, "OutOfSpace")
    /\ Requested(history[4], 0)
    /\ Requested(history[5], 1)

\* C9: the first request after a clear never returns OutOfSpace for a glyph no larger
\* than the texture, and places it at the origin if rasterize succeeds; in particular
\* a glyph whose request returned OutOfSpace is placed at (0,0) when it is requested
\* again right after a clear.
C9_OutOfSpaceIsTransient ==
    LET n == Len(history) IN
    (n >= 2 /\ history[n - 1].op = "clear" /\ IsRenderGlyph(history[n])) =>
        LET glyph == history[n].arg.value
            metrics == FontProvider[glyph]
            atOrigin == Ok(<<metrics, TextureGlyph(glyph,
                              Bounds(0, 0, metrics.bounds.value.width,
                                     metrics.bounds.value.height))>>) IN
        /\ (/\ metrics.bounds.is_some
            /\ metrics.bounds.value.width <= cache.texture.width
            /\ metrics.bounds.value.height <= cache.texture.height) =>
               /\ ~IsErr(history[n].result, "OutOfSpace")
               /\ RasterizeSucceeded(history[n]) => history[n].result = atOrigin
        /\ (/\ n >= 3
            /\ Requested(history[n - 2], glyph)
            /\ IsErr(history[n - 2].result, "OutOfSpace")
            /\ RasterizeSucceeded(history[n])) => history[n].result = atOrigin

\* a glyph ran out of space, the cache was cleared, and the glyph was requested again
C9_Witness ==
    LET n == Len(history) IN
    /\ n >= 3
    /\ IsRenderGlyph(history[n - 2])
    /\ IsErr(history[n - 2].result, "OutOfSpace")
    /\ history[n - 1].op = "clear"
    /\ Requested(history[n], history[n - 2].arg.value)
    /\ history[n].result.kind = "Ok"

\* C10: clear empties the lookup map and sets h_cursor, v_cursor and
\* current_line_height to 0; it makes no put_rect (and no rasterize) call and leaves
\* the owned texture and the font provider as they were.
C10_Clear ==
    [][ last'.op = "clear" =>
          /\ cache'.map = <<>>
          /\ Cursors(cache') = <<0, 0, 0>>
          /\ cache'.texture = cache.texture
          /\ cache'.font = cache.font
          /\ last'.put_rect = <<>>
          /\ last'.rasterize = <<>>
          /\ held' = held ]_vars

\* a clear of a cache that held two glyphs and had just run out of space
C10_Witness ==
    LET n == Len(history) IN
    /\ n >= 4
    /\ history[n].op = "clear"
    /\ IsRenderGlyph(history[n - 1])
    /\ IsErr(history[n - 1].result, "OutOfSpace")
    /\ history[n - 2].result.kind = "Ok"
    /\ history[n - 3].result.kind = "Ok"
    /\ cache.map = <<>>

\* C11: replace_texture returns the texture the cache owned before the call, makes
\* the given one the owned texture, and leaves the map empty and the cursors and row
\* height 0; a request that follows the swap is never answered from an entry placed
\* on the old texture: if it succeeds, the glyph was rasterized and written again.
C11_ReplaceTexture ==
    [][ /\ last'.op = "replace_texture" =>
              /\ last'.result = Ok(cache.texture)
              /\ cache'.texture = last'.arg.value
              /\ cache'.texture # cache.texture
              /\ cache'.map = <<>>
              /\ Cursors(cache') = <<0, 0, 0>>
              /\ held' = (held \ {cache'.texture}) \cup {cache.texture}
        /\ (last.op = "replace_texture" /\ IsRenderGlyph(last')
                /\ last'.result.kind = "Ok") =>
              /\ last'.rasterize = <<last'.arg.value>>
              /\ last'.put_rect = <<cache'.map[last'.arg.value]>>
              /\ last'.result.value[2].bounds.x = 0
              /\ last'.result.value[2].bounds.y = 0 ]_vars

\* a glyph placed in the second column of the first texture is requested right after
\* the swap and is placed anew at the origin of the other texture
C11_Witness ==
    LET n == Len(history) IN
    /\ n >= 4
    /\ IsRenderGlyph(history[n - 2])
    /\ history[n - 2].result.kind = "Ok"
    /\ history[n - 2].result.value[2].bounds.x > 0
    /\ history[n - 1].op = "replace_texture"
    /\ Requested(history[n], history[n - 2].arg.value)
    /\ history[n].result.kind = "Ok"
    /\ cache.texture = OtherTexture

\* C12: any two distinct entries of the lookup map are separated by at least one
\* free pixel column or one free pixel row.
C12_Padding ==
    \A a \in Entries : \A b \in Entries :
        a.glyph # b.glyph =>
            \/ a.bounds.x + a.bounds.width + 1 <= b.bounds.x
            \/ b.bounds.x + b.bounds.width + 1 <= a.bounds.x
            \/ a.bounds.y + a.bounds.height + 1 <= b.bounds.y
            \/ b.bounds.y + b.bounds.height + 1 <= a.bounds.y

\* two glyphs of a row with exactly one free column between them, and a glyph in
\* the next row with exactly one free row above it
C12_Witness ==
    \E a \in Entries : \E b \in Entries : \E c \in Entries :
        /\ a.bounds.y = b.bounds.y
        /\ a.bounds.x + a.bounds.width + 1 = b.bounds.x
        /\ c.bounds.y = a.bounds.y + a.bounds.height + 1

\* C13: no render_glyph call, successful or failing, leaves h_cursor or v_cursor
\* smaller than it was before the call.
C13_CursorsNeverDecrease ==
    [][ IsRenderGlyph(last') =>
          /\ cache'.h_cursor >= cache.h_cursor
          /\ cache'.v_cursor >= cache.v_cursor ]_vars

\* C13 as amended: no render_glyph call leaves v_cursor smaller than before, and
\* h_cursor is smaller after a call only if the call started a new row (v_cursor grew):
\* the pair (v_cursor, h_cursor) never decreases in the lexicographic order. Both
\* cursors return to 0 at a reset.
C13_CursorsAdvanceRowWise ==
    [][ /\ IsRenderGlyph(last') =>
              /\ cache'.v_cursor >= cache.v_cursor
              /\ cache'.v_cursor = cache.v_cursor => cache'.h_cursor >= cache.h_cursor
        /\ last'.op \in ResetOps => (cache'.v_cursor = 0 /\ cache'.h_cursor = 0) ]_vars

\* a glyph was placed at the start of the second row: h_cursor fell, v_cursor grew
C13_Witness ==
    /\ IsRenderGlyph(last)
    /\ last.result.kind = "Ok"
    /\ last.put_rect # <<>>
    /\ last.result.value[2].bounds.x = 0
    /\ last.result.value[2].bounds.y > 0
    /\ cache.h_cursor < cache.texture.width

\* C14: every call other than clear and replace_texture leaves each entry of the
\* lookup map in the map with the same region; entries leave the map only all
\* together, at a clear or replace_texture.
C14_EntriesImmutable ==
    [][ /\ last'.op \notin ResetOps =>
              \A g \in DOMAIN cache.map :
                  g \in DOMAIN cache'.map /\ cache'.map[g] = cache.map[g]
        /\ last'.op \in ResetOps => cache'.map = <<>>
        /\ (DOMAIN cache.map \subseteq DOMAIN cache'.map) \/ DOMAIN cache'.map = {} ]_vars

\* three entries, the last of them added after a request for a cached glyph, and the
\* latest request failed
C14_Witness ==
    /\ Cardinality(DOMAIN cache.map) >= 3
    /\ IsRenderGlyph(last)
    /\ last.result.kind = "Err"
    /\ rasterize_calls[last.arg.value] >= 1

\* C15: cache_string resolves the glyphs of the text in order and stops at the first
\* glyph whose resolve fails: it returns that glyph's error, no glyph after it is
\* attempted, the glyphs before it stay cached; it returns Ok(()) exactly if every
\* glyph of the text resolved.
C15_CacheStringShortCircuits ==
    LET glyphs == string_call.glyphs
        items == string_call.items
        n == Len(items) IN
    /\ string_call.mode = "collect" =>
          /\ n <= Len(glyphs)
          /\ \A i \in 1 .. n : items[i].arg.value = glyphs[i]
          /\ \A i \in 1 .. n - 1 : items[i].result.kind = "Ok"
    /\ last.op = "cache_string" =>
          /\ string_call.mode = "collect"
          /\ glyph_buffer = <<>>
          /\ \A i \in 1 .. n : items[i].result.kind = "Ok" =>
                /\ glyphs[i] \in DOMAIN cache.map
                /\ cache.map[glyphs[i]] = items[i].result.value[2]
          /\ last.result.kind \in {"Ok", "Err"}
          /\ last.result.kind = "Err" => (n >= 1 /\ last.result = items[n].result)
          /\ last.result.kind = "Ok" <=>
                (n = Len(glyphs) /\ \A i \in 1 .. n : items[i].result.kind = "Ok")
          /\ last.result.kind = "Ok" => last.result = Ok(Unit)

\* cache_string cached the first glyph of a text, returned the error of the second,
\* which was not placed
C15_Witness ==
    /\ last.op = "cache_string"
    /\ last.result.kind = "Err"
    /\ Len(string_call.glyphs) = 2
    /\ Len(string_call.items) = 2
    /\ string_call.items[1].result.kind = "Ok"
    /\ string_call.items[1].rasterize # <<>>
    /\ string_call.glyphs[2] \notin DOMAIN cache.map

\* C16: the iterator of render_string yields one result per glyph the provider
\* produced for the text of the current call, in that order, and the glyph buffer
\* never carries glyphs from one call to the next: it is empty whenever no string
\* call is in progress, and during a call it holds exactly the glyphs of this call
\* that were not yielded yet.
C16_RenderStringRestarts ==
    LET glyphs == string_call.glyphs
        items == string_call.items
        n == Len(items) IN
    /\ pc \in {"idle", "aborted"} => glyph_buffer = <<>>
    /\ last.op = "render_string" =>
          /\ glyphs = Retain(last.arg.value)
          /\ glyph_buffer = glyphs
          /\ n = 0
    /\ pc \in {"iter", "collect"} =>
          /\ n <= Len(glyphs)
          /\ glyph_buffer = SubSeq(glyphs, n + 1, Len(glyphs))
          /\ \A i \in 1 .. n : IsRenderGlyph(items[i]) /\ items[i].arg.value = glyphs[i]

\* render_string was called with a text of two glyphs after a string call that
\* left a glyph unyielded
C16_Witness ==
    /\ last.op = "render_string"
    /\ pc = "iter"
    /\ string_call.prev_unyielded >= 1
    /\ Len(string_call.glyphs) = 2
    /\ glyph_buffer = string_call.glyphs

\* the map with one more entry
WithEntry(map, gpu) ==
    [g \in DOMAIN map \cup {gpu.glyph} |-> IF g = gpu.glyph THEN gpu ELSE map[g]]

\* a render_glyph call for a glyph that was not in the map returned Ok
SucceededMiss ==
    /\ IsRenderGlyph(last')
    /\ last'.result.kind = "Ok"
    /\ last'.arg.value \notin DOMAIN cache.map

\* C17: a miss that succeeds from cursors (h, v, s) with bounds w x ht on a texture
\* of width W gets the region (h, v, w, ht) and leaves the cursors (h+w+1, v,
\* max(s, ht)) if h + w <= W, and otherwise gets (0, v+s+1, w, ht) and leaves
\* (w+1, v+s+1, ht); put_rect is called once, with that region, and the map gains
\* exactly the entry of the glyph with that region.
C17_ShelfPlacement ==
    [][ SucceededMiss =>
          LET g == last'.arg.value
              h == cache.h_cursor
              v == cache.v_cursor
              s == cache.current_line_height
              w == cache.font[g].bounds.value.width
              ht == cache.font[g].bounds.value.height
              region == IF h + w <= cache.texture.width
                        THEN TextureGlyph(g, Bounds(h, v, w, ht))
                        ELSE TextureGlyph(g, Bounds(0, v + s + 1, w, ht)) IN
          /\ Cursors(cache') = IF h + w <= cache.texture.width
                               THEN <<h + w + 1, v, Max(s, ht)>>
                               ELSE <<w + 1, v + s + 1, ht>>
          /\ last'.result.value[2] = region
          /\ last'.put_rect = <<region>>
          /\ cache'.map = WithEntry(cache.map, region)
          /\ cache'.texture = cache.texture ]_vars

\* a glyph lower than the row above it was placed at the start of a new row: the
\* height of the new row is the height of that glyph
C17_Witness ==
    /\ IsRenderGlyph(last)
    /\ last.result.kind = "Ok"
    /\ last.put_rect # <<>>
    /\ last.put_rect[1].bounds.x = 0
    /\ last.put_rect[1].bounds.y = 3
    /\ cache.current_line_height = last.put_rect[1].bounds.height
    /\ \E e \in Entries : e.bounds.y = 0 /\ e.bounds.height > cache.current_line_height

\* the entries of the active row: those whose y is v_cursor
ActiveRow == { e \in Entries : e.bounds.y = cache.v_cursor }

RECURSIVE MaxHeight(_)
MaxHeight(entries) ==
    IF entries = {} THEN 0
    ELSE LET e == CHOOSE x \in entries : TRUE IN
         Max(e.bounds.height, MaxHeight(entries \ {e}))

\* C18: in every reachable state current_line_height is the greatest height among
\* the entries of the active row (0 if the row has none), and every entry either is
\* in the active row and ends, with its padding column, at or before h_cursor, or
\* lies above the active row and ends, with its padding row, at or before v_cursor.
C18_ShelfHeight ==
    /\ cache.current_line_height = MaxHeight(ActiveRow)
    /\ \A e \in Entries :
          \/ e.bounds.y = cache.v_cursor /\ e.bounds.x + e.bounds.width + 1 <= cache.h_cursor
          \/ e.bounds.y + e.bounds.height + 1 <= cache.v_cursor

\* an active row below the first one that holds an entry, under a row of two entries
C18_Witness ==
    /\ cache.v_cursor > 0
    /\ ActiveRow # {}
    /\ Cardinality(Entries \ ActiveRow) = 2
    /\ cache.current_line_height < MaxHeight(Entries)

\* a render_glyph call in which the provider's rasterize was called and failed
RasterizeFailed ==
    /\ IsRenderGlyph(last')
    /\ last'.rasterize # <<>>
    /\ last'.result.kind = "Err"

\* C19: when rasterize fails for an uncached glyph that passed the size and space
\* checks, render_glyph returns that error, calls put_rect not at all, inserts no
\* entry and leaves h_cursor, v_cursor and current_line_height as they were before
\* the call; a later request for the glyph is a miss again.
C19_RasterizeFailureChangesNothing ==
    [][ RasterizeFailed =>
          /\ last'.result = Err(NonRenderableGlyph(last'.arg.value))
          /\ last'.put_rect = <<>>
          /\ cache'.map = cache.map
          /\ last'.arg.value \notin DOMAIN cache'.map
          /\ Cursors(cache') = Cursors(cache) ]_vars

\* C20: a render_glyph call that returns TextureTooSmall leaves the lookup map,
\* h_cursor, v_cursor and current_line_height as they were and calls neither
\* rasterize nor put_rect.
C20_TextureTooSmallChangesNothing ==
    [][ (IsRenderGlyph(last') /\ IsErr(last'.result, "TextureTooSmall")) =>
          /\ cache'.map = cache.map
          /\ Cursors(cache') = Cursors(cache)
          /\ cache'.texture = cache.texture
          /\ last'.rasterize = <<>>
          /\ last'.put_rect = <<>>
          /\ rasterize_calls' = rasterize_calls
          /\ put_rect_calls' = put_rect_calls ]_vars

\* TextureTooSmall was returned for a glyph too high for the texture and narrow
\* enough for it, requested when the current row had no room for its width
C20_Witness ==
    /\ IsRenderGlyph(last)
    /\ IsErr(last.result, "TextureTooSmall")
    /\ Cardinality(DOMAIN cache.map) >= 2
    /\ cache.font[last.arg.value].bounds.value.width <= cache.texture.width
    /\ cache.font[last.arg.value].bounds.value.width + cache.h_cursor > cache.texture.width

====
